---- MODULE Spec2Model ----
(***************************************************************************)
(* bevy_screen_diagnostics: the ScreenDiagnostics registry, its builder,   *)
(* and the two chained systems update_onscreen_diags_layout / update_diags *)
(* that keep the text spans under the diagnostics root in step with it.    *)
(***************************************************************************)
EXTENDS Integers, Sequences, FiniteSets, TLC

VARIABLES
    text_alignment,  \* ScreenDiagnostics.text_alignment
    diagnostics,     \* ScreenDiagnostics.diagnostics : BTreeMap<String, DiagnosticsText>
    layout_changed,  \* ScreenDiagnostics.layout_changed
    spans,           \* the TextSpan children of the DiagnosticsTextMarker root, in order
    justify,         \* TextLayout.justify of the root
    store,           \* DiagnosticsStore: path -> history of measurements, oldest first
    pc,              \* which of the two chained systems runs next ("layout" or "update")
    rebuilt,         \* whether the layout system of the current/last tick took its rebuild branch
    failed,          \* a span write past the end of the span list (TextUiWriter panics)
    budget,          \* registry mutations and measurements still allowed in this run
    batch,           \* history: the mutations made since the last completed tick
    clean,           \* history: no layout flag was pending when the current batch began
    ticks,           \* history: ticks completed since the last mutation (capped)
    rebuilds,        \* history: rebuild passes run since the current batch began (capped)
    writes,          \* history: the span writes <<index, field>> of the update pass just run
    valued,          \* history: the entries whose value span carried a formatted value when
                     \* the last tick ended, and that have stayed shown since
    probe            \* a history, a count and what Aggregate::MovingAverage(count) made of them

vars == <<text_alignment, diagnostics, layout_changed, spans, justify, store,
          pc, rebuilt, failed, budget, batch, clean, ticks, rebuilds, writes, valued,
          probe>>

----------------------------------------------------------------------------
(* Bounds of the model *)

MaxSteps == 3          \* registry mutations and measurements per run
MaxHistory == 2        \* measurements a diagnostic keeps
MaxBatch == 2          \* mutations of a batch that the history records one by one
MaxCount == 3          \* cap of the tick and rebuild counters
MaxLen == 4            \* longest history, and greatest sample, given to an aggregate alone
MaxWindow == 3         \* greatest count given to Aggregate::MovingAverage alone

----------------------------------------------------------------------------
(* Values *)

None == <<>>
Some(x) == <<x>>
IsSome(o) == Len(o) = 1
Unwrap(o) == o[1]

\* Names used as keys, with their UTF-8 bytes (String's Ord compares bytes).
Utf8 == "box_count" :> <<98, 111, 120, 95, 99, 111, 117, 110, 116>>
     @@ "fps" :> <<102, 112, 115>>

Names == DOMAIN Utf8

RECURSIVE BytesLess(_, _)
BytesLess(a, b) ==
    IF b = <<>> THEN FALSE
    ELSE IF a = <<>> THEN TRUE
    ELSE IF a[1] # b[1] THEN a[1] < b[1]
    ELSE BytesLess(Tail(a), Tail(b))

\* a < b for Strings
StrLess(a, b) == BytesLess(Utf8[a], Utf8[b])

\* DiagnosticPaths: box_count is registered with the store by the app, fps only
\* by an app that adds FrameTimeDiagnosticsPlugin.
Paths == {"box_count", "fps"}

\* css::RED, css::WHITE
Colors == {"RED", "WHITE"}
DEFAULT_COLORS == <<"RED", "WHITE">>

\* JustifyText
Aligns == {"Left", "Right"}

\* Aggregate
Value == [kind |-> "Value", count |-> 0]
Average == [kind |-> "Average", count |-> 0]
MovingAverage(n) == [kind |-> "MovingAverage", count |-> n]
Aggregates == {Value, Average, MovingAverage(2)}

\* FormatFn: |v| format!("{v:.2}") and |v| format!("{v:.0}")
Formats == {"{v:.2}", "{v:.0}"}

\* Measurement values
Samples == {1, 2}

----------------------------------------------------------------------------
(* BTreeMap<String, DiagnosticsText>: a function on the registered names *)

Registered == DOMAIN diagnostics

RECURSIVE Descending(_)
\* the keys of a set of names from the greatest to the least: values_mut().rev()
Descending(S) ==
    IF S = {} THEN <<>>
    ELSE LET top == CHOOSE n \in S : \A m \in S \ {n} : StrLess(m, n)
         IN  <<top>> \o Descending(S \ {top})

\* BTreeMap::insert
MapInsert(m, k, v) == [n \in DOMAIN m \cup {k} |-> IF n = k THEN v ELSE m[n]]

\* BTreeMap::remove
MapRemove(m, k) == [n \in DOMAIN m \ {k} |-> m[n]]

----------------------------------------------------------------------------
(* DiagnosticsText *)

\* DiagnosticsText::get_name
get_name(e) == IF e.show_name THEN " " \o e.name \o " " ELSE " "

\* the DiagnosticsText that ScreenDiagnostics::add builds
NewText(name, path) ==
    [name |-> name, path |-> path, agg |-> Value, format |-> "{v:.2}",
     show |-> TRUE, show_name |-> TRUE,
     colors |-> <<DEFAULT_COLORS[1], DEFAULT_COLORS[2]>>,
     edit |-> FALSE, rebuild |-> TRUE, index |-> None]

\* add written with entry(name).or_insert: an entry already there is kept
add_KeepExisting(m, name, path) ==
    IF name \in DOMAIN m THEN m ELSE MapInsert(m, name, NewText(name, path))

\* add with the new entry's rebuild flag left clear
add_Unflagged(m, name, path) ==
    MapInsert(m, name, [NewText(name, path) EXCEPT !.rebuild = FALSE])

\* ScreenDiagnostics::add: the map after the insert
add(m, name, path) == MapInsert(m, name, NewText(name, path))

\* ScreenDiagnostics::remove: the map after the removal
remove(m, name) == MapRemove(m, name)

\* DiagnosticsTextBuilder::aggregate (entry(k).and_modify: nothing for a missing key)
aggregate(m, k, agg) ==
    [n \in DOMAIN m |->
        IF n = k THEN [m[n] EXCEPT !.agg = agg, !.rebuild = TRUE] ELSE m[n]]

\* DiagnosticsTextBuilder::format
format(m, k, fmt) ==
    [n \in DOMAIN m |->
        IF n = k THEN [m[n] EXCEPT !.format = fmt, !.rebuild = TRUE] ELSE m[n]]

\* diagnostic_color marking the entry for a rebuild instead of an edit
diagnostic_color_Rebuilds(m, k, color) ==
    [n \in DOMAIN m |->
        IF n = k THEN [m[n] EXCEPT !.colors[1] = color, !.rebuild = TRUE] ELSE m[n]]

\* DiagnosticsTextBuilder::diagnostic_color
diagnostic_color(m, k, color) ==
    [n \in DOMAIN m |->
        IF n = k THEN [m[n] EXCEPT !.colors[1] = color, !.edit = TRUE] ELSE m[n]]

\* DiagnosticsTextBuilder::name_color
name_color(m, k, color) ==
    [n \in DOMAIN m |->
        IF n = k THEN [m[n] EXCEPT !.colors[2] = color, !.edit = TRUE] ELSE m[n]]

\* toggle_name marking the entry for a rebuild instead of an edit
toggle_name_Rebuilds(m, k) ==
    [n \in DOMAIN m |->
        IF n = k THEN [m[n] EXCEPT !.show_name = ~m[n].show_name, !.rebuild = TRUE]
        ELSE m[n]]

\* DiagnosticsTextBuilder::toggle_name
toggle_name(m, k) ==
    [n \in DOMAIN m |->
        IF n = k THEN [m[n] EXCEPT !.show_name = ~m[n].show_name, !.edit = TRUE]
        ELSE m[n]]

\* toggle written with entry(k).or_insert_with: a missing key gets a hidden entry
toggle_Upsert(m, k) ==
    IF k \in DOMAIN m
    THEN [n \in DOMAIN m |->
            IF n = k THEN [m[n] EXCEPT !.show = ~m[n].show, !.rebuild = TRUE] ELSE m[n]]
    ELSE MapInsert(m, k, [NewText(k, "fps") EXCEPT !.show = FALSE])

\* DiagnosticsTextBuilder::toggle
toggle(m, k) ==
    [n \in DOMAIN m |->
        IF n = k THEN [m[n] EXCEPT !.show = ~m[n].show, !.rebuild = TRUE] ELSE m[n]]

----------------------------------------------------------------------------
(* DiagnosticsStore and the aggregates *)

\* a value v as the fraction num/den
Frac(num, den) == [num |-> num, den |-> den]

RECURSIVE Sum(_)
Sum(h) == IF h = <<>> THEN 0 ELSE h[1] + Sum(Tail(h))

\* values().skip(skip)
Skip(h, skip) == SubSeq(h, skip + 1, Len(h))

\* usize::saturating_sub in the place of checked_sub
checked_sub_Saturating(a, b) == Some(IF b <= a THEN a - b ELSE 0)

\* usize::checked_sub
checked_sub(a, b) == IF b <= a THEN Some(a - b) ELSE None

\* Diagnostic::value: the latest measurement, if any
DiagValue(h) == IF h = <<>> THEN None ELSE Some(Frac(h[Len(h)], 1))

\* Diagnostic::average: the mean of the history, if any
DiagAverage(h) == IF h = <<>> THEN None ELSE Some(Frac(Sum(h), Len(h)))

\* the match on text_diag.agg in update_diags
Aggregated(agg, h) ==
    CASE agg.kind = "Value" -> DiagValue(h)
      [] agg.kind = "Average" -> DiagAverage(h)
      [] agg.kind = "MovingAverage" ->
            LET skip_maybe == checked_sub(Len(h), agg.count)
            IN  IF IsSome(skip_maybe)
                THEN Some(Frac(Sum(Skip(h, Unwrap(skip_maybe))), agg.count))
                ELSE None

\* Diagnostic::add_measurement with max_history_length = MaxHistory
Measured(h, v) ==
    LET all == Append(h, v)
    IN  IF Len(all) > MaxHistory THEN Tail(all) ELSE all

\* v * 10^places rounded to the nearest integer, ties to even
Rounded(v, scale) ==
    LET n == v.num * scale
        q == n \div v.den
        r == n % v.den
    IN  IF 2 * r > v.den \/ (2 * r = v.den /\ q % 2 = 1) THEN q + 1 ELSE q

\* DiagnosticsText::format with the two formatters
Format(fmt, v) ==
    IF fmt = "{v:.2}"
    THEN LET c == Rounded(v, 100)
         IN  ToString(c \div 100) \o "." \o ToString((c % 100) \div 10)
                \o ToString(c % 10)
    ELSE ToString(Rounded(v, 1))

----------------------------------------------------------------------------
(* update_onscreen_diags_layout: the rebuild branch *)

RECURSIVE Reversed(_)
Reversed(s) == IF s = <<>> THEN <<>> ELSE Reversed(Tail(s)) \o <<s[1]>>

\* the iteration without .rev(): the shown names from the least to the greatest
Shown_Forward(m) == SelectSeq(Reversed(Descending(DOMAIN m)), LAMBDA n : m[n].show)

\* diagnostics.values_mut().rev().filter(|t| t.show): the names, in iteration order
Shown(m) == SelectSeq(Descending(DOMAIN m), LAMBDA n : m[n].show)

\* the place (from 1) of name n in the sequence of names s
Place(s, n) == CHOOSE i \in 1..Len(s) : s[i] = n

\* the loop giving an index only to the entries that have none
AssignIndex_OnlyNew(m) ==
    [n \in DOMAIN m |->
        IF m[n].show /\ m[n].index = None
        THEN [m[n] EXCEPT !.index = Some((Place(Shown(m), n) - 1) * 2 + 1)]
        ELSE m[n]]

\* the loop also taking the index from the entries it filters out
AssignIndex_ClearsHidden(m) ==
    [n \in DOMAIN m |->
        IF m[n].show
        THEN [m[n] EXCEPT !.index = Some((Place(Shown(m), n) - 1) * 2 + 1)]
        ELSE [m[n] EXCEPT !.index = None]]

\* text.index = Some(i * 2 + 1), i counting the shown entries from 0
AssignIndex(m) ==
    [n \in DOMAIN m |->
        IF m[n].show
        THEN [m[n] EXCEPT !.index = Some((Place(Shown(m), n) - 1) * 2 + 1)]
        ELSE m[n]]

\* the two TextSpans spawned name first, value second
SpawnSpans_NameFirst(e) ==
    << [text |-> get_name(e), color |-> e.colors[2], entry |-> e.name, part |-> "name"],
       [text |-> "test_val", color |-> e.colors[1], entry |-> e.name, part |-> "value"] >>

\* the two TextSpans spawned for one entry; `entry` and `part` tell whose they are
SpawnSpans(e) ==
    << [text |-> "test_val", color |-> e.colors[1], entry |-> e.name, part |-> "value"],
       [text |-> get_name(e), color |-> e.colors[2], entry |-> e.name, part |-> "name"] >>

RECURSIVE SpawnAll(_, _)
\* the children spawned by the loop, for the names s in order
SpawnAll(m, s) ==
    IF s = <<>> THEN <<>> ELSE SpawnSpans(m[s[1]]) \o SpawnAll(m, Tail(s))

\* remove::<Children>() and the with_children calls, once the commands are applied
RebuildSpans(m) == SpawnAll(m, Shown(m))

----------------------------------------------------------------------------
(* update_diags: the loop over diagnostics.values_mut().rev() *)

\* the loop's state: the map, the spans, the local layout_changed, a panic of the
\* writer, and the writes made so far
LoopStart(m, s) ==
    [diags |-> m, spans |-> s, layout_changed |-> FALSE, panic |-> FALSE, writes |-> {}]

\* *writer.color(root, index) = color
WriteColor(acc, index, color) ==
    IF acc.panic THEN acc
    ELSE IF index \notin 1..Len(acc.spans) THEN [acc EXCEPT !.panic = TRUE]
    ELSE [acc EXCEPT !.spans[index].color = color,
                     !.writes = @ \cup {<<index, "color">>}]

\* *writer.text(root, index) = text
WriteText(acc, index, text) ==
    IF acc.panic THEN acc
    ELSE IF index \notin 1..Len(acc.spans) THEN [acc EXCEPT !.panic = TRUE]
    ELSE [acc EXCEPT !.spans[index].text = text,
                     !.writes = @ \cup {<<index, "text">>}]

\* the edit writing the two colours and leaving the name span's text alone
EditPass_SkipsName(acc, n) ==
    LET e == acc.diags[n]
    IN  IF IsSome(e.index) /\ e.edit
        THEN LET index == Unwrap(e.index)
                 a1 == WriteColor(acc, index, e.colors[1])
                 a2 == WriteColor(a1, index + 1, e.colors[2])
             IN  IF a2.panic THEN a2 ELSE [a2 EXCEPT !.diags[n].edit = FALSE]
        ELSE acc

\* the edit written to the spans with the entry's edit flag left set
EditPass_KeepsFlag(acc, n) ==
    LET e == acc.diags[n]
    IN  IF IsSome(e.index) /\ e.edit
        THEN LET index == Unwrap(e.index)
                 a1 == WriteColor(acc, index, e.colors[1])
                 a2 == WriteColor(a1, index + 1, e.colors[2])
             IN  WriteText(a2, index + 1, get_name(e))
        ELSE acc

\* if let Some(index) = text_diag.index && text_diag.edit { ... }
EditPass(acc, n) ==
    LET e == acc.diags[n]
    IN  IF IsSome(e.index) /\ e.edit
        THEN LET index == Unwrap(e.index)
                 a1 == WriteColor(acc, index, e.colors[1])
                 a2 == WriteColor(a1, index + 1, e.colors[2])
                 a3 == WriteText(a2, index + 1, get_name(e))
             IN  IF a3.panic THEN a3 ELSE [a3 EXCEPT !.diags[n].edit = FALSE]
        ELSE acc

\* the value write blanking the span when there is no value to show
ValuePass_Blanks(acc, n, st) ==
    LET e == acc.diags[n]
    IN  IF acc.panic \/ ~IsSome(e.index) THEN acc
        ELSE IF e.path \notin DOMAIN st \/ ~IsSome(Aggregated(e.agg, st[e.path]))
        THEN WriteText(acc, Unwrap(e.index), "")
        ELSE WriteText(acc, Unwrap(e.index),
                       Format(e.format, Unwrap(Aggregated(e.agg, st[e.path]))))

\* if let Some(diag_val) = diagnostics.get(&text_diag.path) { ... }
ValuePass(acc, n, st) ==
    LET e == acc.diags[n]
    IN  IF acc.panic \/ e.path \notin DOMAIN st THEN acc
        ELSE LET diag_val == Aggregated(e.agg, st[e.path])
             IN  IF IsSome(diag_val) /\ IsSome(e.index)
                 THEN WriteText(acc, Unwrap(e.index), Format(e.format, Unwrap(diag_val)))
                 ELSE acc

\* the loop body clearing an entry's rebuild flag without raising layout_changed
LoopBody_DropsFlag(acc, n, st) ==
    LET e == acc.diags[n]
    IN  IF acc.panic THEN acc
        ELSE IF e.rebuild THEN [acc EXCEPT !.diags[n].rebuild = FALSE]
        ELSE IF ~e.show THEN acc
        ELSE ValuePass(EditPass(acc, n), n, st)

\* the loop body without the check of show
LoopBody_NoShowCheck(acc, n, st) ==
    LET e == acc.diags[n]
    IN  IF acc.panic THEN acc
        ELSE IF e.rebuild
        THEN [acc EXCEPT !.layout_changed = TRUE, !.diags[n].rebuild = FALSE]
        ELSE ValuePass(EditPass(acc, n), n, st)

\* the body of the for loop, for the entry named n
LoopBody(acc, n, st) ==
    LET e == acc.diags[n]
    IN  IF acc.panic THEN acc
        ELSE IF e.rebuild
        THEN [acc EXCEPT !.layout_changed = TRUE, !.diags[n].rebuild = FALSE]
        ELSE IF ~e.show THEN acc
        ELSE ValuePass(EditPass(acc, n), n, st)

RECURSIVE Loop_Breaks(_, _, _)
\* the loop leaving at the first entry marked for a rebuild (break for continue)
Loop_Breaks(acc, s, st) ==
    IF s = <<>> THEN acc
    ELSE IF acc.diags[s[1]].rebuild THEN LoopBody(acc, s[1], st)
    ELSE Loop_Breaks(LoopBody(acc, s[1], st), Tail(s), st)

RECURSIVE Loop(_, _, _)
Loop(acc, s, st) ==
    IF s = <<>> THEN acc ELSE Loop(LoopBody(acc, s[1], st), Tail(s), st)

\* the whole loop over the map m with the spans s and the store st
UpdateLoop(m, s, st) == Loop(LoopStart(m, s), Descending(DOMAIN m), st)

----------------------------------------------------------------------------
(* The state machine *)

Min(a, b) == IF a < b THEN a ELSE b

\* no rebuild is pending: neither the registry's flag nor any entry's
IsClean == ~layout_changed /\ \A n \in Registered : ~diagnostics[n].rebuild

\* no aggregate under study
NoProbe == [history |-> <<>>, count |-> 1, out |-> None, applied |-> FALSE]

\* ScreenDiagnostics::default, the root spawned by spawn_ui, an empty history
Constructed ==
    /\ text_alignment = "Left"
    /\ diagnostics = <<>>
    /\ layout_changed = FALSE
    /\ spans = <<>>
    /\ justify = "Left"
    /\ store = [p \in {"box_count"} |-> <<>>]
    /\ pc = "layout"
    /\ rebuilt = FALSE
    /\ failed = FALSE
    /\ budget = MaxSteps
    /\ batch = <<>>
    /\ clean = TRUE
    /\ ticks = 0
    /\ rebuilds = 0
    /\ writes = {}
    /\ valued = {}

Init == Constructed /\ probe = NoProbe

\* entry n of the map m has its index at a value span of its own in s, and that span
\* carries a formatted value, not the text it was spawned with
HasValue(m, s, n) ==
    /\ IsSome(m[n].index)
    /\ Unwrap(m[n].index) \in 1..Len(s)
    /\ s[Unwrap(m[n].index)].entry = n
    /\ s[Unwrap(m[n].index)].part = "value"
    /\ s[Unwrap(m[n].index)].text # "test_val"

\* registry mutations happen between ticks, by code that holds ResMut<ScreenDiagnostics>
CanMutate == pc = "layout" /\ budget > 0 /\ (ticks > 0 \/ Len(batch) < MaxBatch)

\* the history of a mutation `op` on `name`: whether the name was registered, and
\* whether its entry was shown, when the mutation was made
Logged(op, name) ==
    LET hit == name \in Registered
        rec == [op |-> op, name |-> name, hit |-> hit,
                shown |-> hit /\ diagnostics[name].show]
    IN  /\ batch' = IF ticks > 0 THEN <<rec>> ELSE Append(batch, rec)
        /\ clean' = IF ticks > 0 THEN IsClean ELSE clean
        /\ ticks' = 0
        /\ rebuilds' = 0
        /\ budget' = budget - 1
        /\ writes' = {}
        /\ valued' = {n \in valued \cap DOMAIN diagnostics' :
                          diagnostics'[n].show /\ ~(op = "add" /\ name = n)}
        /\ UNCHANGED <<spans, justify, store, pc, rebuilt, failed, probe>>

Add(name, path) ==
    /\ CanMutate
    /\ diagnostics' = add(diagnostics, name, path)
    /\ UNCHANGED <<text_alignment, layout_changed>>
    /\ Logged("add", name)

SetAggregate(name, agg) ==
    /\ CanMutate
    /\ diagnostics' = aggregate(diagnostics, name, agg)
    /\ UNCHANGED <<text_alignment, layout_changed>>
    /\ Logged("aggregate", name)

SetFormat(name, fmt) ==
    /\ CanMutate
    /\ diagnostics' = format(diagnostics, name, fmt)
    /\ UNCHANGED <<text_alignment, layout_changed>>
    /\ Logged("format", name)

DiagnosticColor(name, color) ==
    /\ CanMutate
    /\ diagnostics' = diagnostic_color(diagnostics, name, color)
    /\ UNCHANGED <<text_alignment, layout_changed>>
    /\ Logged("diagnostic_color", name)

NameColor(name, color) ==
    /\ CanMutate
    /\ diagnostics' = name_color(diagnostics, name, color)
    /\ UNCHANGED <<text_alignment, layout_changed>>
    /\ Logged("name_color", name)

ToggleName(name) ==
    /\ CanMutate
    /\ diagnostics' = toggle_name(diagnostics, name)
    /\ UNCHANGED <<text_alignment, layout_changed>>
    /\ Logged("toggle_name", name)

Toggle(name) ==
    /\ CanMutate
    /\ diagnostics' = toggle(diagnostics, name)
    /\ UNCHANGED <<text_alignment, layout_changed>>
    /\ Logged("toggle", name)

Remove(name) ==
    /\ CanMutate
    /\ diagnostics' = remove(diagnostics, name)
    /\ UNCHANGED <<text_alignment, layout_changed>>
    /\ Logged("remove", name)

\* set_alignment storing the alignment without raising layout_changed
SetAlignment_Unflagged(align) ==
    /\ CanMutate
    /\ text_alignment' = align
    /\ UNCHANGED <<diagnostics, layout_changed>>
    /\ Logged("set_alignment", "")

\* ScreenDiagnostics::set_alignment
SetAlignment(align) ==
    /\ CanMutate
    /\ text_alignment' = align
    /\ layout_changed' = TRUE
    /\ UNCHANGED diagnostics
    /\ Logged("set_alignment", "")

\* a system of the host adds a measurement of a diagnostic the store knows
Measure(path, v) ==
    /\ pc = "layout"
    /\ budget > 0
    /\ path \in DOMAIN store
    /\ store' = [store EXCEPT ![path] = Measured(@, v)]
    /\ budget' = budget - 1
    /\ UNCHANGED <<text_alignment, diagnostics, layout_changed, spans, justify, pc,
                   rebuilt, failed, batch, clean, ticks, rebuilds, writes, valued, probe>>

\* the first system of a tick
update_onscreen_diags_layout ==
    /\ pc = "layout"
    /\ pc' = "update"
    /\ rebuilt' = layout_changed
    /\ IF layout_changed
       THEN /\ diagnostics' = AssignIndex(diagnostics)
            /\ spans' = RebuildSpans(diagnostics)
            /\ justify' = text_alignment
            /\ layout_changed' = FALSE
            /\ rebuilds' = Min(rebuilds + 1, MaxCount)
       ELSE UNCHANGED <<diagnostics, spans, justify, layout_changed, rebuilds>>
    /\ writes' = {}
    /\ UNCHANGED <<text_alignment, store, failed, budget, batch, clean, ticks, valued,
                   probe>>

\* the second system of a tick, chained after the first
update_diags ==
    /\ pc = "update"
    /\ IF layout_changed
       THEN /\ pc' = "layout"
            /\ writes' = {}
            /\ UNCHANGED <<diagnostics, spans, layout_changed, failed>>
       ELSE LET end == UpdateLoop(diagnostics, spans, store)
            IN  /\ diagnostics' = end.diags
                /\ spans' = end.spans
                /\ writes' = end.writes
                /\ failed' = end.panic
                /\ layout_changed' = IF end.panic THEN layout_changed
                                     ELSE end.layout_changed
                /\ pc' = IF end.panic THEN "panicked" ELSE "layout"
    /\ ticks' = Min(ticks + 1, MaxCount)
    /\ valued' = {n \in DOMAIN diagnostics' :
                      diagnostics'[n].show /\ HasValue(diagnostics', spans', n)}
    /\ UNCHANGED <<text_alignment, justify, store, rebuilt, budget, batch, clean,
                   rebuilds, probe>>

Next ==
    \/ \E name \in Names, path \in Paths : Add(name, path)
    \/ \E name \in Names, agg \in Aggregates : SetAggregate(name, agg)
    \/ \E name \in Names, fmt \in Formats : SetFormat(name, fmt)
    \/ \E name \in Names, color \in Colors : DiagnosticColor(name, color)
    \/ \E name \in Names, color \in Colors : NameColor(name, color)
    \/ \E name \in Names : ToggleName(name)
    \/ \E name \in Names : Toggle(name)
    \/ \E name \in Names : Remove(name)
    \/ \E align \in Aligns : SetAlignment(align)
    \/ \E path \in Paths, v \in Samples : Measure(path, v)
    \/ update_onscreen_diags_layout
    \/ update_diags

Spec == Init /\ [][Next]_vars

----------------------------------------------------------------------------
(* An app whose Startup systems registered "fps" and "box_count", each with the
   defaults of add, and whose store holds one measurement of each path when
   the timer first lets the two systems run *)

\* the history of the two adds
SetupBatch ==
    << [op |-> "add", name |-> "fps", hit |-> FALSE, shown |-> FALSE],
       [op |-> "add", name |-> "box_count", hit |-> FALSE, shown |-> FALSE] >>

SetupInit ==
    /\ text_alignment = "Left"
    /\ diagnostics = add(add(<<>>, "fps", "fps"), "box_count", "box_count")
    /\ layout_changed = FALSE
    /\ spans = <<>>
    /\ justify = "Left"
    /\ \E v \in Samples, w \in Samples : store = [p \in Paths |-> IF p = "fps" THEN <<v>> ELSE <<w>>]
    /\ pc = "layout"
    /\ rebuilt = FALSE
    /\ failed = FALSE
    /\ budget = MaxSteps - 2
    /\ batch = SetupBatch
    /\ clean = TRUE
    /\ ticks = 0
    /\ rebuilds = 0
    /\ writes = {}
    /\ valued = {}
    /\ probe = NoProbe

SetupSpec == SetupInit /\ [][Next]_vars

----------------------------------------------------------------------------
(* An app that added "box_count", let two ticks lay it out, hid it with toggle
   and let two more ticks rebuild without it: the entry is registered and
   hidden, and keeps the index of the earlier rebuild *)

\* the map and the spans after one tick, from the map m and the spans s, with an
\* empty history of box_count: the layout system, then the update loop
Ticked(m, s, flag) ==
    LET st == [p \in {"box_count"} |-> <<>>]
    IN  IF flag
        THEN UpdateLoop(AssignIndex(m), RebuildSpans(m), st)
        ELSE UpdateLoop(m, s, st)

HiddenInit ==
    LET t1 == Ticked(add(<<>>, "box_count", "box_count"), <<>>, FALSE)
        t2 == Ticked(t1.diags, t1.spans, t1.layout_changed)
        t3 == Ticked(toggle(t2.diags, "box_count"), t2.spans, t2.layout_changed)
        t4 == Ticked(t3.diags, t3.spans, t3.layout_changed)
    IN  /\ text_alignment = "Left"
        /\ diagnostics = t4.diags
        /\ layout_changed = t4.layout_changed
        /\ spans = t4.spans
        /\ justify = "Left"
        /\ store = [p \in {"box_count"} |-> <<>>]
        /\ pc = "layout"
        /\ rebuilt = t3.layout_changed
        /\ failed = t4.panic
        /\ budget = MaxSteps - 1
        /\ batch = <<[op |-> "toggle", name |-> "box_count", hit |-> TRUE, shown |-> TRUE]>>
        /\ clean = TRUE
        /\ ticks = 2
        /\ rebuilds = 1
        /\ writes = t4.writes
        /\ valued = {}
        /\ probe = NoProbe

HiddenSpec == HiddenInit /\ [][Next]_vars

----------------------------------------------------------------------------
(* Aggregate::MovingAverage alone: the arm of the match in update_diags, given
   any history of a diagnostic and any positive count *)

\* the measurements a history may hold
ProbeSamples == 1..MaxLen

\* the histories of at most MaxLen measurements, oldest first
Histories == UNION {[1..k -> ProbeSamples] : k \in 0..MaxLen}

MovingAverageInit ==
    /\ Constructed
    /\ \E h \in Histories, count \in 1..MaxWindow :
           probe = [history |-> h, count |-> count, out |-> None, applied |-> FALSE]

\* the match arm evaluated on the history, as update_diags evaluates it
ApplyMovingAverage ==
    /\ ~probe.applied
    /\ probe' = [probe EXCEPT
                    !.out = Aggregated(MovingAverage(probe.count), probe.history),
                    !.applied = TRUE]
    /\ UNCHANGED <<text_alignment, diagnostics, layout_changed, spans, justify, store,
                   pc, rebuilt, failed, budget, batch, clean, ticks, rebuilds, writes,
                   valued>>

MovingAverageSpec == MovingAverageInit /\ [][ApplyMovingAverage]_vars

----------------------------------------------------------------------------
(* Vocabulary of the properties *)

\* the registered entries that are shown
VisibleNames == {n \in Registered : diagnostics[n].show}

\* how many shown entries have a name greater than n's
ShownAbove(n) == Cardinality({m \in VisibleNames : StrLess(n, m)})

\* some entry's rebuild flag is set
Pending == \E n \in Registered : diagnostics[n].rebuild

\* the state between the two systems of a tick whose layout system rebuilt
AfterRebuild == pc = "update" /\ rebuilt

\* the state between two ticks
BetweenTicks == pc = "layout"

\* the state between the two systems of the n-th tick after the last mutation
InTick(n) == pc = "update" /\ ticks = n - 1

\* the state after n ticks have completed since the last mutation
AfterTicks(n) == pc = "layout" /\ ticks = n

Last(s) == s[Len(s)]

\* the mutations of the current batch
BatchOps == {batch[i] : i \in 1..Len(batch)}

\* the mutation r set its entry's rebuild flag
SetsRebuild(r) == r.op = "add" \/ (r.op \in {"aggregate", "format", "toggle"} /\ r.hit)

\* the registered entries whose rebuild flag the batch set
DirtyNames == {r.name : r \in {x \in BatchOps : SetsRebuild(x)}} \cap Registered

\* the batch called set_alignment
AlignedInBatch == \E r \in BatchOps : r.op = "set_alignment"

BuilderOps ==
    {"aggregate", "format", "diagnostic_color", "name_color", "toggle_name", "toggle"}

ColourOps == {"diagnostic_color", "name_color"}

\* a step of the builder bound to name n
BuilderStep(n) ==
    \/ \E agg \in Aggregates : SetAggregate(n, agg)
    \/ \E fmt \in Formats : SetFormat(n, fmt)
    \/ \E color \in Colors : DiagnosticColor(n, color)
    \/ \E color \in Colors : NameColor(n, color)
    \/ ToggleName(n)
    \/ Toggle(n)

Fields ==
    {"name", "path", "agg", "format", "show", "show_name", "colors", "edit", "rebuild",
     "index"}

\* entry e1 equals entry e0 in every field but those of `but`
SameBut(e1, e0, but) == \A f \in Fields \ but : e1[f] = e0[f]

\* the writer indices at which the update pass just run wrote a colour
ColourWrites == {w[1] : w \in {x \in writes : x[2] = "color"}}

\* the batch is toggle, twice, on one registered entry
DoubleToggle ==
    /\ Len(batch) = 2
    /\ batch[1].op = "toggle" /\ batch[2].op = "toggle"
    /\ batch[1].name = batch[2].name
    /\ batch[1].hit

\* the batch is colour changes only, each on a registered entry that is shown
ColourBatch ==
    /\ batch # <<>>
    /\ \A r \in BatchOps : r.op \in ColourOps /\ r.hit /\ r.shown

\* the entries whose colours the batch changed
Recoloured == {r.name : r \in {x \in BatchOps : x.op \in ColourOps /\ x.hit}}

\* the batch is the add of a new entry and a colour change of another entry, one
\* that was registered and shown, in either order
AddAndColour ==
    /\ Len(batch) = 2
    /\ \E i, j \in 1..2 :
          /\ batch[i].op = "add" /\ ~batch[i].hit
          /\ batch[j].op \in ColourOps /\ batch[j].hit /\ batch[j].shown
          /\ batch[i].name # batch[j].name

\* the entry the batch added
Added == {r.name : r \in {x \in BatchOps : x.op = "add"}}

\* the spans at entry n's index carry n's colours, and are n's own
ShowsColours(n) ==
    LET e == diagnostics[n]
        i == Unwrap(e.index)
    IN  /\ IsSome(e.index) /\ i + 1 <= Len(spans)
        /\ spans[i].entry = n /\ spans[i].part = "value"
        /\ spans[i].color = e.colors[1]
        /\ spans[i + 1].entry = n /\ spans[i + 1].part = "name"
        /\ spans[i + 1].color = e.colors[2]

\* the writer indices of entry n's two spans
SpansOf(n) == {Unwrap(diagnostics[n].index), Unwrap(diagnostics[n].index) + 1}

\* some span on display belongs to entry n
Displayed(n) == \E i \in 1..Len(spans) : spans[i].entry = n

\* the names the batch removed and did not add again
Removed == {r.name : r \in {x \in BatchOps : x.op = "remove" /\ x.hit}} \ Registered

----------------------------------------------------------------------------
(* C1: after any rebuild pass the span list holds exactly two spans per shown
   entry and none for a hidden one; the entries come in strictly descending
   name order, each as its value span immediately followed by its name span. *)
C1_RebuildLayout ==
    AfterRebuild =>
        /\ Len(spans) = 2 * Cardinality(VisibleNames)
        /\ \A n \in VisibleNames :
              /\ spans[2 * ShownAbove(n) + 1].entry = n
              /\ spans[2 * ShownAbove(n) + 1].part = "value"
              /\ spans[2 * ShownAbove(n) + 2].entry = n
              /\ spans[2 * ShownAbove(n) + 2].part = "name"

\* a rebuild that has just laid out two shown entries
C1_Witness == AfterRebuild /\ Cardinality(VisibleNames) = 2 /\ Len(spans) = 4

----------------------------------------------------------------------------
(* C2 as stated: whenever a mutation between two ticks set an entry's rebuild
   flag, the layout system of the very next tick rebuilds. *)
C2_NextTickRebuilds == (InTick(1) /\ DirtyNames # {}) => rebuilt

(* C2, amended: the update pass of the next tick is what observes the entry's
   flag: it clears the entry flags and raises layout_changed, and the layout
   system of the tick after that rebuilds. The next tick itself does not
   rebuild unless layout_changed was already raised (a rebuild pending when
   the batch began, or set_alignment in the batch). *)
C2_RebuildOneTickLater ==
    /\ (InTick(1) /\ DirtyNames # {} /\ clean /\ ~AlignedInBatch) => ~rebuilt
    /\ (AfterTicks(1) /\ DirtyNames # {}) => (layout_changed /\ ~Pending)
    /\ (InTick(2) /\ DirtyNames # {}) => rebuilt

\* the second tick after a flag-setting batch has rebuilt; the first could not
C2_Witness == InTick(2) /\ DirtyNames # {} /\ clean /\ ~AlignedInBatch /\ rebuilt

----------------------------------------------------------------------------
(* C3 as stated: remove(name) on a registered name deletes the entry and raises
   layout_changed, so that once the following ticks have run no span of the
   removed entry is left; remove on an unknown name leaves the entries as
   they were. *)
C3_RemoveRebuilds ==
    [][ /\ \A n \in Names :
            Remove(n) => /\ n \notin Registered'
                         /\ n \in Registered => layout_changed'
                         /\ n \notin Registered => diagnostics' = diagnostics
        /\ (AfterTicks(2))' =>
               \A i \in 1..Len(spans') : spans'[i].entry \notin Removed'
      ]_vars

----------------------------------------------------------------------------
(* C4 as stated: in every reachable state, an entry with its rebuild flag set
   implies layout_changed. *)
C4_EntryFlagImpliesGlobal == Pending => layout_changed

(* C4, amended: add sets the new entry's rebuild flag and leaves
   layout_changed as it was; an entry flag stays set only until the update
   pass of the following tick, which clears every entry's flag and sets
   layout_changed exactly when it found one set. *)
C4_FlagCollectedByUpdate ==
    [][ /\ \A n \in Names, p \in Paths :
            Add(n, p) => /\ diagnostics'[n].rebuild
                         /\ layout_changed' = layout_changed
        /\ (update_diags /\ ~layout_changed /\ ~failed') =>
               (layout_changed' = Pending /\ ~Pending')
        /\ Pending' => ticks' = 0
      ]_vars

\* right after add: the entry's flag is set and layout_changed is not
C4_Witness ==
    /\ AfterTicks(0) /\ batch # <<>> /\ Last(batch).op = "add"
    /\ diagnostics[Last(batch).name].rebuild
    /\ ~layout_changed

----------------------------------------------------------------------------
(* C5: add(name, path) leaves exactly one entry under name, with the creation
   defaults (Aggregate::Value, the two-decimal formatter, shown, name shown,
   red value and white name, rebuild set, edit clear, no index), whether or
   not the name was registered before; every other entry is as it was. *)
C5_AddResetsEntry ==
    [][ \A n \in Names, p \in Paths :
            Add(n, p) =>
                /\ Registered' = Registered \cup {n}
                /\ diagnostics'[n] =
                       [name |-> n, path |-> p,
                        agg |-> [kind |-> "Value", count |-> 0],
                        format |-> "{v:.2}", show |-> TRUE, show_name |-> TRUE,
                        colors |-> <<"RED", "WHITE">>, edit |-> FALSE,
                        rebuild |-> TRUE, index |-> <<>>]
                /\ \A m \in Registered \ {n} : diagnostics'[m] = diagnostics[m]
      ]_vars

\* add has just replaced an entry that was registered and hidden
C5_Witness ==
    /\ AfterTicks(0) /\ batch # <<>>
    /\ Last(batch).op = "add" /\ Last(batch).hit /\ ~Last(batch).shown
    /\ diagnostics[Last(batch).name].show

----------------------------------------------------------------------------
(* C6: for a name that is not registered, every builder operation (aggregate,
   format, toggle, toggle_name, diagnostic_color, name_color) leaves the
   registry and the display as they were: no entry is created, no field and
   no flag changes; so does any chain of them. *)
C6_ModifyUnknownIsNoOp ==
    [][ \A n \in Names \ Registered :
            BuilderStep(n) =>
                UNCHANGED <<text_alignment, diagnostics, layout_changed, spans,
                            justify, store, failed>>
      ]_vars

\* a chain of two builder operations on an unknown name, beside a registered entry
C6_Witness ==
    /\ AfterTicks(0) /\ Len(batch) = 2 /\ Registered # {}
    /\ \A r \in BatchOps : r.op \in BuilderOps /\ ~r.hit

----------------------------------------------------------------------------
(* C7: a builder operation on a registered entry sets one configuration field
   and one flag: aggregate, format and toggle set rebuild and leave edit;
   diagnostic_color, name_color and toggle_name set edit and leave rebuild.
   The index, the other fields, the other entries and layout_changed are as
   they were. *)
C7_BuilderFrame ==
    [][ \A n \in Registered :
            LET e0 == diagnostics[n]
                e1 == diagnostics'[n]
            IN  /\ BuilderStep(n) =>
                       /\ Registered' = Registered
                       /\ \A m \in Registered \ {n} : diagnostics'[m] = diagnostics[m]
                       /\ UNCHANGED <<layout_changed, text_alignment, spans>>
                /\ \A agg \in Aggregates : SetAggregate(n, agg) =>
                       e1.agg = agg /\ e1.rebuild /\ SameBut(e1, e0, {"agg", "rebuild"})
                /\ \A fmt \in Formats : SetFormat(n, fmt) =>
                       e1.format = fmt /\ e1.rebuild
                           /\ SameBut(e1, e0, {"format", "rebuild"})
                /\ Toggle(n) =>
                       e1.show = ~e0.show /\ e1.rebuild
                           /\ SameBut(e1, e0, {"show", "rebuild"})
                /\ ToggleName(n) =>
                       e1.show_name = ~e0.show_name /\ e1.edit
                           /\ SameBut(e1, e0, {"show_name", "edit"})
                /\ \A c \in Colors : DiagnosticColor(n, c) =>
                       e1.colors = <<c, e0.colors[2]>> /\ e1.edit
                           /\ SameBut(e1, e0, {"colors", "edit"})
                /\ \A c \in Colors : NameColor(n, c) =>
                       e1.colors = <<e0.colors[1], c>> /\ e1.edit
                           /\ SameBut(e1, e0, {"colors", "edit"})
      ]_vars

\* toggle_name has just been applied to a registered entry that has its index
C7_Witness ==
    /\ AfterTicks(0) /\ batch # <<>>
    /\ Last(batch).op = "toggle_name" /\ Last(batch).hit
    /\ diagnostics[Last(batch).name].index # None
    /\ diagnostics[Last(batch).name].edit
    /\ ~diagnostics[Last(batch).name].rebuild

----------------------------------------------------------------------------
(* C8 as stated: toggle called twice on one registered entry with no tick in
   between leaves show as it was, and the ticks that follow run exactly one
   rebuild pass in total. *)
C8_DoubleToggleOneRebuild ==
    /\ (DoubleToggle /\ AfterTicks(0)) =>
           diagnostics[batch[1].name].show = batch[1].shown
    /\ DoubleToggle => rebuilds <= 1
    /\ (DoubleToggle /\ BetweenTicks /\ ticks >= 2) => rebuilds = 1

----------------------------------------------------------------------------
(* C9: from a layout with no rebuild pending, any number of colour changes of
   registered, shown entries between two ticks causes no rebuild pass; the
   update pass of the next tick writes colours to the spans of the changed
   entries and to no other span, leaves those spans with the new colours and
   clears the entries' edit flags; later ticks write no colour. *)
C9_ColourEditsInPlace ==
    (ColourBatch /\ clean) =>
        /\ rebuilds = 0 /\ ~layout_changed /\ ~failed
        /\ AfterTicks(1) =>
              /\ ColourWrites = UNION {SpansOf(n) : n \in Recoloured}
              /\ \A n \in Recoloured : ShowsColours(n) /\ ~diagnostics[n].edit
        /\ (BetweenTicks /\ ticks >= 2) => ColourWrites = {}

\* one tick after a batch of two colour changes made on a clean layout
C9_Witness ==
    /\ ColourBatch /\ clean /\ AfterTicks(1) /\ Len(batch) = 2
    /\ \E n \in Recoloured : diagnostics[n].colors # <<"RED", "WHITE">>

----------------------------------------------------------------------------
(* C10 as stated: when a new entry is added and another, shown entry's colour
   is changed between two ticks, the next tick rebuilds with the new entry,
   and the changed colour reaches the display as the colour the rebuild
   spawns the spans with. *)
C10_NextTickRebuildsWithColour ==
    (AddAndColour /\ InTick(1)) =>
        /\ rebuilt
        /\ \A n \in Added : Displayed(n)
        /\ \A n \in Recoloured : ShowsColours(n)

(* C10, amended: the next tick rebuilds (with the new entry and the changed
   colours) only if a rebuild was already pending when the batch began;
   otherwise it does not rebuild, its update pass writes the changed colours
   in place to the spans of the recoloured entry and raises layout_changed,
   the new entry not yet on display. The tick after that rebuilds with the
   new entry, the recoloured entry's spans spawned with the changed colours. *)
C10_EditThenRebuild ==
    AddAndColour =>
        /\ (~clean /\ InTick(1)) =>
              /\ rebuilt
              /\ \A n \in Added : Displayed(n)
              /\ \A n \in Recoloured : ShowsColours(n)
        /\ (clean /\ InTick(1)) => ~rebuilt
        /\ (clean /\ AfterTicks(1)) =>
              /\ \A n \in Recoloured :
                    /\ SpansOf(n) \subseteq ColourWrites
                    /\ ShowsColours(n) /\ ~diagnostics[n].edit
              /\ \A n \in Added : ~Displayed(n)
        /\ AfterTicks(1) => layout_changed
        /\ InTick(2) =>
              /\ rebuilt
              /\ \A n \in Added : Displayed(n)
              /\ \A n \in Recoloured : ShowsColours(n)

\* the second tick after such a batch on a clean layout has rebuilt
C10_Witness ==
    /\ AddAndColour /\ clean /\ InTick(2) /\ rebuilt
    /\ \E n \in Recoloured : diagnostics[n].colors # <<"RED", "WHITE">>

----------------------------------------------------------------------------
(* C11: set_alignment(align) stores the alignment and raises layout_changed;
   the entries and their flags stay as they were. The layout system of the
   next tick then rebuilds and gives the root's TextLayout the stored
   alignment. *)
C11_SetAlignmentRebuilds ==
    [][ /\ \A a \in Aligns :
            SetAlignment(a) => /\ text_alignment' = a
                               /\ layout_changed'
                               /\ diagnostics' = diagnostics
                               /\ UNCHANGED <<spans, justify>>
        /\ (AlignedInBatch /\ AfterTicks(0))' => layout_changed'
        /\ (AlignedInBatch /\ InTick(1))' =>
               (rebuilt' /\ justify' = text_alignment')
      ]_vars

\* the tick after set_alignment("Right") has rebuilt, beside an entry on display
C11_Witness ==
    /\ AlignedInBatch /\ InTick(1) /\ rebuilt
    /\ justify = "Right" /\ text_alignment = "Right"
    /\ VisibleNames # {} /\ spans # <<>>

----------------------------------------------------------------------------
(* C12: for every history and every positive count, MovingAverage(count)
   yields nothing when the history holds fewer than count measurements, and
   otherwise the sum of exactly the last count measurements divided by count:
   count 3 over 1,2,3,4 gives 3, and over 1,2 gives nothing. An empty history
   yields nothing, without an error. *)
C12_MovingAverage ==
    probe.applied =>
        LET h == probe.history
            n == Len(h)
            w == probe.count
            last == {i \in 1..n : i > n - w}
            total == Sum([i \in 1..Cardinality(last) |-> h[n - Cardinality(last) + i]])
        IN  /\ n < w => probe.out = None
            /\ n >= w => /\ IsSome(probe.out)
                         /\ Cardinality(last) = w
                         /\ Unwrap(probe.out).num * w = total * Unwrap(probe.out).den
                         /\ Unwrap(probe.out).den > 0
            /\ (h = <<1, 2, 3, 4>> /\ w = 3) =>
                   Unwrap(probe.out).num = 3 * Unwrap(probe.out).den
            /\ (h = <<1, 2>> /\ w = 3) => probe.out = None
            /\ h = <<>> => probe.out = None

\* MovingAverage(3) has been applied to the history 1,2,3,4 and has yielded 3
C12_Witness ==
    /\ probe.applied /\ probe.history = <<1, 2, 3, 4>> /\ probe.count = 3
    /\ probe.out = Some(Frac(9, 3))

----------------------------------------------------------------------------
(* C13 as stated: a rebuild spawns each shown entry's value span with the
   empty string as its text; for an entry whose path has no data in the store
   the value span still holds the empty string after the ticks that follow,
   and no write fails. *)
C13_ValueSpanStartsEmpty ==
    /\ AfterRebuild =>
           \A i \in 1..Len(spans) : spans[i].part = "value" => spans[i].text = ""
    /\ (BetweenTicks /\ ticks >= 1) =>
           \A n \in VisibleNames :
               (IsSome(diagnostics[n].index) /\ diagnostics[n].path \notin DOMAIN store) =>
                   spans[Unwrap(diagnostics[n].index)].text = ""
    /\ ~failed

----------------------------------------------------------------------------
\* the text of a value span showing the latest of the measurements h, to two decimals
TwoDecimals(h) == ToString(Last(h)) \o ".00"

\* nothing but ticks since the setup: the two entries as added, one measurement each
AfterSetup == batch = SetupBatch /\ \A p \in Paths : Len(store[p]) = 1

\* the four spans of "fps" and "box_count" with the defaults, showing the store's
\* latest measurements
FourSpans ==
    /\ Len(spans) = 4
    /\ spans[1].text = TwoDecimals(store["fps"]) /\ spans[1].color = "RED"
    /\ spans[2].text = " fps " /\ spans[2].color = "WHITE"
    /\ spans[3].text = TwoDecimals(store["box_count"]) /\ spans[3].color = "RED"
    /\ spans[4].text = " box_count " /\ spans[4].color = "WHITE"

(* C14 as stated: with "fps" and "box_count" registered before the first tick
   (Aggregate::Value, default format and colours) and one measurement of each
   in the store, the state after exactly one tick has the four spans: the fps
   value, " fps ", the box_count value, " box_count ", with the default
   colours. *)
C14_FourSpansAfterOneTick == (AfterSetup /\ AfterTicks(1)) => FourSpans

(* C14, amended: the first tick does not rebuild: its update pass collects the
   two entries' rebuild flags and raises layout_changed, and the span list is
   still empty after it. The second tick rebuilds and its update pass writes
   the values: after exactly two ticks the span list is the four spans. *)
C14_FourSpansAfterTwoTicks ==
    AfterSetup =>
        /\ AfterTicks(1) => (spans = <<>> /\ layout_changed /\ ~Pending)
        /\ AfterTicks(2) => (FourSpans /\ ~layout_changed /\ ~failed)

\* two ticks after the setup, with distinct measurements of the two paths
C14_Witness ==
    /\ AfterSetup /\ AfterTicks(2)
    /\ Len(spans) = 4 /\ spans[1].text = "2.00" /\ spans[3].text = "1.00"

----------------------------------------------------------------------------
(* C15 as stated: once a shown entry's value span carries a formatted value,
   no later tick leaves it with anything but a formatted value while the
   entry stays shown: when the aggregate yields nothing (a path without data,
   a moving average over more measurements than there are) the display keeps
   the last value, also across rebuild passes. *)
C15_KeepsLastValue ==
    [][ update_diags =>
            \A n \in valued \cap DOMAIN diagnostics' :
                diagnostics'[n].show => HasValue(diagnostics', spans', n)
      ]_vars

----------------------------------------------------------------------------
(* C16 as stated: in the state right after any rebuild pass an entry has an
   index if and only if it is shown; a hidden entry has none, also one that
   was shown and indexed at an earlier rebuild and has been hidden since. *)
C16_IndexIffShown ==
    AfterRebuild =>
        \A n \in Registered : IsSome(diagnostics[n].index) <=> diagnostics[n].show

(* C16, amended: a rebuild pass gives every shown entry the index of its value
   span, 2 i + 1 for the i-th shown entry in descending name order from 0, and
   leaves the index of every hidden entry as it was: none for an entry never
   laid out since it was added, the old index for an entry that was laid out
   by an earlier rebuild and hidden since. *)
C16_RebuildIndexesShown ==
    [][ (update_onscreen_diags_layout /\ layout_changed) =>
            \A n \in Registered :
                /\ diagnostics[n].show =>
                       diagnostics'[n].index = <<2 * ShownAbove(n) + 1>>
                /\ ~diagnostics[n].show =>
                       diagnostics'[n].index = diagnostics[n].index
      ]_vars

\* a rebuild has just run past a hidden entry that keeps the index of an earlier one
C16_Witness ==
    /\ AfterRebuild
    /\ \E n \in Registered : ~diagnostics[n].show /\ IsSome(diagnostics[n].index)

----------------------------------------------------------------------------
\* the update pass about to run reads entry n's index: n is not marked for a
\* rebuild, is shown and has an index
Written(n) ==
    /\ ~diagnostics[n].rebuild /\ diagnostics[n].show
    /\ IsSome(diagnostics[n].index)

(* C17: in every update pass, after any sequence of add, builder operations,
   remove, set_alignment and ticks, every span write goes to a position of
   the current span list: for each entry the pass writes, its value position
   (the index) and its name position (the index + 1) are within the list the
   most recent rebuild spawned. No write fails. *)
C17_WritesInRange ==
    /\ ~failed /\ pc # "panicked"
    /\ (pc = "update" /\ ~layout_changed) =>
           \A n \in Registered :
               Written(n) => /\ Unwrap(diagnostics[n].index) >= 1
                             /\ Unwrap(diagnostics[n].index) + 1 <= Len(spans)
    /\ \A w \in writes : w[1] \in 1..Len(spans)

\* an update pass has written both colours and the name of a shown entry, at its
\* index and the position after it
C17_Witness ==
    /\ BetweenTicks /\ ticks >= 1 /\ ~failed
    /\ \E n \in VisibleNames :
           /\ IsSome(diagnostics[n].index)
           /\ {<<Unwrap(diagnostics[n].index), "color">>,
               <<Unwrap(diagnostics[n].index) + 1, "color">>,
               <<Unwrap(diagnostics[n].index) + 1, "text">>} \subseteq writes

----------------------------------------------------------------------------
(* C18 as stated: the state right after any rebuild pass has layout_changed
   false and every entry's rebuild flag false. *)
C18_RebuildClearsFlags == AfterRebuild => (~layout_changed /\ ~Pending)

----------------------------------------------------------------------------
(* C19: layout_changed goes from true to false only in the rebuild branch of
   update_onscreen_diags_layout, in the step that has given every shown entry
   its new index and has spawned the new span list; update_diags and the
   registry mutations never clear it. *)
C19_ClearedOnlyByRebuild ==
    [][ /\ (layout_changed /\ ~layout_changed') =>
               /\ pc = "layout" /\ pc' = "update" /\ rebuilt'
               /\ Len(spans') = 2 * Cardinality(VisibleNames')
               /\ \A n \in VisibleNames' :
                      diagnostics'[n].index = <<2 * ShownAbove(n)' + 1>>
        /\ (update_diags \/ pc' = "layout") => (layout_changed => layout_changed')
      ]_vars

\* a rebuild has just cleared layout_changed and has moved an entry to index 3
C19_Witness ==
    /\ AfterRebuild /\ ~layout_changed
    /\ \E n \in VisibleNames : diagnostics[n].index = <<3>>

----------------------------------------------------------------------------
\* the text of entry n's name span: " name " if the name is shown, " " if not
LabelOf(n) == IF diagnostics[n].show_name THEN " " \o n \o " " ELSE " "

(* C20 as stated: after an update pass on a layout with no rebuild pending,
   every entry that had its edit flag set and has an index has the flag
   cleared, its value span and name span carry the entry's colours, and its
   name span's text is " name " if show_name is true and " " otherwise. *)
C20_EditClearsEveryIndexed ==
    [][ (update_diags /\ IsClean) =>
            \A n \in Registered :
                (diagnostics[n].edit /\ IsSome(diagnostics[n].index)) =>
                    /\ ~diagnostics'[n].edit
                    /\ ShowsColours(n)'
                    /\ spans'[Unwrap(diagnostics[n].index) + 1].text = LabelOf(n)'
      ]_vars

(* C20, amended: an update pass that runs its loop (layout_changed false)
   applies the edit of every entry that is shown, is not marked for a rebuild,
   has its edit flag set and has an index: the flag is cleared, the two spans
   carry the entry's colours and the name span's text is " name " or " ".
   Every other entry, a hidden one with the index of an earlier rebuild or one
   marked for a rebuild among them, keeps its edit flag as it was and no span
   is written for it. *)
C20_EditAppliesToShown ==
    [][ (update_diags /\ ~layout_changed) =>
            \A n \in Registered :
                IF diagnostics[n].edit /\ Written(n)
                THEN /\ ~diagnostics'[n].edit
                     /\ ShowsColours(n)'
                     /\ spans'[Unwrap(diagnostics[n].index) + 1].text = LabelOf(n)'
                     /\ SpansOf(n) \subseteq ColourWrites'
                ELSE /\ diagnostics'[n].edit = diagnostics[n].edit
                     /\ (~diagnostics[n].show \/ diagnostics[n].rebuild) =>
                            \A w \in writes' : spans'[w[1]].entry # n
      ]_vars

\* an update pass has just blanked the name of a shown entry
C20_Witness ==
    /\ BetweenTicks /\ ticks = 1
    /\ \E n \in VisibleNames :
           /\ ~diagnostics[n].show_name /\ ~diagnostics[n].edit
           /\ IsSome(diagnostics[n].index)
           /\ <<Unwrap(diagnostics[n].index) + 1, "text">> \in writes
           /\ spans[Unwrap(diagnostics[n].index) + 1].text = " "

----------------------------------------------------------------------------
\* stores that differ from the current one: an empty one, and one with a
\* measurement of every path
OtherStores == {<<>>, [p \in Paths |-> <<1>>]}

\* the aggregate of entry n yields nothing from the current store
NoValue(n) ==
    \/ diagnostics[n].path \notin DOMAIN store
    \/ Aggregated(diagnostics[n].agg, store[diagnostics[n].path]) = None

(* C21: an update pass writes no span for a hidden entry and does not read the
   store for it: the loop's turn for the entry writes nothing, no span of the
   entry is written in the pass, and what the turn does is the same whatever
   the store holds. For a shown entry whose path the store does not know, or whose
   aggregate yields nothing, the pass leaves the text of the entry's value
   span exactly as it was. *)
C21_UpdateFrame ==
    [][ (update_diags /\ ~layout_changed) =>
            \A n \in Registered :
                /\ ~diagnostics[n].show =>
                       /\ \A w \in writes' : spans'[w[1]].entry # n
                       /\ LoopBody(LoopStart(diagnostics, spans), n, store).writes = {}
                       /\ LoopBody(LoopStart(diagnostics, spans), n, store).spans = spans
                       /\ \A st \in OtherStores :
                              LoopBody(LoopStart(diagnostics, spans), n, st)
                                  = LoopBody(LoopStart(diagnostics, spans), n, store)
                /\ (diagnostics[n].show /\ NoValue(n)) =>
                       /\ Len(spans') = Len(spans)
                       /\ \A i \in 1..Len(spans) :
                              (spans[i].entry = n /\ spans[i].part = "value") =>
                                  /\ spans'[i].text = spans[i].text
                                  /\ <<i, "text">> \notin writes'
                       /\ IsSome(diagnostics[n].index) =>
                              <<Unwrap(diagnostics[n].index), "text">> \notin writes'
      ]_vars

\* an update pass has just rewritten the name of a shown entry that has no value,
\* and has left its value span with the text it was spawned with
C21_Witness ==
    /\ BetweenTicks /\ ticks >= 1
    /\ \E n \in VisibleNames :
           /\ IsSome(diagnostics[n].index) /\ NoValue(n)
           /\ <<Unwrap(diagnostics[n].index) + 1, "text">> \in writes
           /\ <<Unwrap(diagnostics[n].index), "text">> \notin writes
           /\ spans[Unwrap(diagnostics[n].index)].text = "test_val"

----------------------------------------------------------------------------
\* the span list is the value span and the name span of every registered, shown
\* entry, in descending name order, and nothing else
SpansExact ==
    /\ Len(spans) = 2 * Cardinality(VisibleNames)
    /\ \A n \in VisibleNames :
           /\ spans[2 * ShownAbove(n) + 1].entry = n
           /\ spans[2 * ShownAbove(n) + 1].part = "value"
           /\ spans[2 * ShownAbove(n) + 2].entry = n
           /\ spans[2 * ShownAbove(n) + 2].part = "name"

(* C22 as stated: after any sequence of add, builder operations, remove and
   set_alignment interleaved with ticks, once no further mutation is made the
   system is, within three ticks, in a state it stays in: layout_changed and
   every entry's rebuild flag are false, no further rebuild runs, and the span
   list is exactly the two spans of every registered, shown entry in
   descending name order. *)
C22_Converges ==
    /\ (BetweenTicks /\ ticks >= 3) => (IsClean /\ SpansExact /\ ~failed)
    /\ (pc = "update" /\ ticks >= 3) => (~rebuilt /\ IsClean /\ SpansExact)

----------------------------------------------------------------------------
(* C23 as stated: a batch of registry mutations made between two consecutive
   ticks on a layout with no rebuild pending (set_alignment together with add
   or toggle, for one) causes at most one rebuild pass over the ticks that
   follow. *)
C23_AtMostOneRebuild == (clean /\ batch # <<>>) => rebuilds <= 1

----------------------------------------------------------------------------
\* the batch changed a colour or the name display of an entry that was hidden at
\* the time, and then showed the entry with toggle
EditedWhileHidden ==
    /\ Len(batch) = 2
    /\ batch[1].op \in ColourOps \cup {"toggle_name"}
    /\ batch[1].hit /\ ~batch[1].shown
    /\ batch[2].op = "toggle" /\ batch[2].name = batch[1].name

(* C24: a colour change or toggle_name applied while the entry is hidden, or
   while its rebuild flag is pending, is not lost: once two ticks have run
   since the last mutation, every shown entry's value span and name span carry
   the entry's colours, the name span's text is " name " or " " as show_name
   says, and the entry's edit flag is clear. *)
C24_EditsNotLost ==
    (BetweenTicks /\ ticks >= 2) =>
        \A n \in VisibleNames :
            /\ ShowsColours(n)
            /\ spans[Unwrap(diagnostics[n].index) + 1].text = LabelOf(n)
            /\ ~diagnostics[n].edit
            /\ ~diagnostics[n].rebuild

\* an entry recoloured or renamed while hidden, then shown, two ticks later
C24_Witness ==
    /\ EditedWhileHidden /\ AfterTicks(2)
    /\ batch[1].name \in VisibleNames
    /\ \/ diagnostics[batch[1].name].colors # <<"RED", "WHITE">>
       \/ ~diagnostics[batch[1].name].show_name

====
